---- MODULE Spec2Model ----
(***************************************************************************)
(* Model of bluetooth-timeout: the BluetoothService state machine          *)
(* (src/src/bluetooth/service.rs) and the TimeoutTask countdown            *)
(* (src/src/timeout.rs).                                                   *)
(*                                                                         *)
(* Time is discrete, one unit = one second.  Every sleeping task carries   *)
(* the time left until it wakes; Tick lets one second pass for all of      *)
(* them and is disabled while some task is due, so a task acts at the      *)
(* instant its sleep ends.  An event handler runs as one step: the service *)
(* is a single task that handles one event at a time, and the countdown    *)
(* never touches the service's fields.                                     *)
(***************************************************************************)
EXTENDS Integers, Sequences, FiniteSets, TLC

(* ---------------------------- bounds ----------------------------------- *)

\* number of TimeoutTask instances that exist at the same time
MaxTimers == 2
\* largest configured timeout (seconds) explored with MaxTimers tasks
MaxTimeout == 11
\* the configured timeout (seconds) of the long countdown, and its number of tasks
LongTimeout == 31
LongTimers == 1
\* largest connected-device count a query returns
MaxDevices == 1
\* number of signals the loop of BluetoothObserver::run takes
MaxSignals == 3
\* number of receivers subscribed to the observer at the same time
MaxReceivers == 1
\* number of calls of Conf::load / from_file / instance
MaxConfCalls == 3

(* ------------------------ program constants ---------------------------- *)

\* tokio::time::sleep(Duration::from_secs(3)) in on_adapter_off
GraceSecs == 3

\* the calls of notification_at with two of them exchanged
Checkpoints_Swapped == <<300, 60, 10, 30>>

\* the remaining times TimeoutTask::run passes to notification_at, in call order
Checkpoints == <<300, 60, 30, 10>>

\* BluetoothEvent variants matched by BluetoothService::start
Events == {"AdapterOn", "AdapterOff", "InterfaceAdded", "InterfaceRemoved"}

\* outcomes of broadcast::Receiver::recv(): an event, or RecvError
RecvOutcomes == Events \cup {"Lagged", "Closed"}

\* a failed proxy.get_devices() / is_powered()
QueryErr == -1
\* what proxy.get_devices() yields: an error, or a list with n connected devices
QueryResults == {QueryErr} \cup (0..MaxDevices)

\* what proxy.is_powered() yields: an error, false (0) or true (1)
PoweredResults == {QueryErr, 0, 1}

\* Option::None for active_timer; "no recount made" for lastCount
None == 0
NoCount == -2

\* the timeout durations handed to BluetoothService::new
Timeouts == {2, MaxTimeout}

\* timeout durations equal to a remaining time passed to notification_at
EdgeTimeouts == {60, 30, 10}

VARIABLES
    pc,            \* lifecycle of the service: new, then noproxy / failed (new returned
                   \* Err) or created, then running, then returned (start returned Err)
    rx,            \* self.rx.is_some()
    timeout,       \* self.timeout (seconds)
    state,         \* self.state
    active_timer,  \* self.active_timer: None or the index of a task in timers
    timers,        \* the TimeoutTask in each task slot, with its position and its log
    abort_tasks,   \* the tasks spawned by on_adapter_off: the handle they hold, time left
    quiet,         \* the event source sends nothing more
    lastEvt,       \* history: outcome of the most recent recv()
    prevState,     \* history: self.state before the most recent handler ran
    lastCount,     \* history: count resolved by the most recent handler, or NoCount
    offSinceEvt,   \* history: turn_off_adapter was called since the last recv()
    prevTimer,     \* history: the handle in active_timer before the most recent handler ran
    newErr,        \* history: the query results <<devices, powered>> new rejected, if any
    faulty,        \* environment: turn_off_adapter and Notification::show can return Err
    conf,          \* the Conf values notifications_enabled and notifications_at
    offFailed,     \* history: a turn_off_adapter call has returned Err
    cancelIdx,     \* history: the sleep at which the most recent handler's abort() caught
                   \* the countdown (its notification_at call, 5 for the final sleep), or 0
    startErr,      \* history: the Err the most recent call of start returned, or "none"
    obs_pc,        \* BluetoothObserver: new, failed (new returned Err), created,
                   \* listening (inside the loop of run), ended (run returned)
    device_count_fallback,  \* BluetoothObserver.device_count_fallback
    receivers,     \* the number of receivers subscribed to BluetoothObserver.sender
    obs_log,       \* history: each signal run has taken, with the event it sent
    CONF,          \* the static CONF: <<>> while uninitialised, <<c>> once it holds c
    conf_calls     \* history: the calls of load / from_file / instance with what they returned

vars == <<pc, rx, timeout, state, active_timer, timers, abort_tasks, quiet,
          lastEvt, prevState, lastCount, offSinceEvt, prevTimer, newErr,
          faulty, conf, offFailed, cancelIdx, startErr,
          obs_pc, device_count_fallback, receivers, obs_log, CONF, conf_calls>>

\* the fields of BluetoothObserver and what it has done
obsVars == <<obs_pc, device_count_fallback, receivers, obs_log>>

\* the static CONF and the calls made on it
onceVars == <<CONF, conf_calls>>

\* the fields of BluetoothService, its countdowns and what they have done
svcVars == <<pc, rx, timeout, state, active_timer, timers, abort_tasks, quiet,
             lastEvt, prevState, lastCount, offSinceEvt, prevTimer, newErr,
             faulty, conf, offFailed, cancelIdx, startErr>>

(* ------------------------- TimeoutTask --------------------------------- *)

NumCheckpoints == Len(Checkpoints)

\* the Result of turn_off_adapter() and of Notification::show(): Ok (TRUE) or Err
CallOutcomes == IF faulty THEN BOOLEAN ELSE {TRUE}

\* notification_at that returns early only for `self.timeout < time`
NotificationAtSkips_Strict(tmo, time) == tmo < time

\* early return of notification_at: `if self.timeout <= time { return; }`
NotificationAtSkips(tmo, time) == tmo <= time

\* the index of the next notification_at call that sleeps, from call i on;
\* NumCheckpoints + 1 stands for the final sleep of run
RECURSIVE NextSleepIdx(_, _)
NextSleepIdx(tmo, i) ==
    IF i > NumCheckpoints THEN i
    ELSE IF NotificationAtSkips(tmo, Checkpoints[i]) THEN NextSleepIdx(tmo, i + 1)
    ELSE i

\* the duration of the sleep at call idx: self.timeout - time, or self.timeout
SleepFor(tmo, idx) ==
    IF idx > NumCheckpoints THEN tmo ELSE tmo - Checkpoints[idx]

\* run the task from call i up to its next sleep
EnterSleep(t, i) ==
    LET idx == NextSleepIdx(t.timeout, i)
    IN [t EXCEPT !.idx = idx, !.phase = "sleep", !.rem = SleepFor(t.timeout, idx)]

\* TimeoutTask::new followed by spawn: the task runs up to its first sleep
NewTimeoutTask(tmo) ==
    EnterSleep([st |-> "running", timeout |-> tmo, last_notification_id |-> 0,
                idx |-> 1, phase |-> "sleep",
                rem |-> 0, elapsed |-> 0, log |-> <<>>, offReq |-> FALSE], 1)

\* a task slot that never held a task
FreeSlot ==
    [st |-> "free", timeout |-> 0, last_notification_id |-> 0, idx |-> 0, phase |-> "end",
     rem |-> 0, elapsed |-> 0, log |-> <<>>, offReq |-> FALSE]

\* what a task did: a warning with the remaining time it announces, the
\* turn_off_adapter call with the service state at that moment, the final
\* notification; ok tells whether the call returned Ok
LogEntry(kind, r, t, ok) ==
    [kind |-> kind, rem |-> r, elapsed |-> t.elapsed, ok |-> ok,
     state |-> IF kind = "off" THEN state ELSE "-"]

\* JoinHandle::is_finished
IsFinished(id) == timers[id].st # "running"

\* a task that ran to completion keeps its log only: its position is never read again
Finished(t) ==
    [t EXCEPT !.st = "finished", !.idx = 0, !.phase = "end", !.rem = 0, !.elapsed = 0,
              !.last_notification_id = 0]

\* an abort() that the task only honours in the first sleep it entered
Abort_OnlyFirstSleep(ts, id) ==
    IF ts[id].st = "running" /\ ts[id].log = <<>> /\ ts[id].phase = "sleep"
    THEN [ts EXCEPT ![id] = FreeSlot] ELSE ts

\* JoinHandle::abort: the runtime drops the task at its current await
Abort(ts, id) ==
    IF ts[id].st = "running" THEN [ts EXCEPT ![id] = FreeSlot] ELSE ts

\* a JoinHandle goes out of scope: a task that is still running keeps running
\* detached, the result of one that has ended is released
DropHandle(ts, id) ==
    IF id # None /\ ts[id].st # "running" THEN [ts EXCEPT ![id] = FreeSlot] ELSE ts

\* notification_at without `self.timeout = time`
NotificationAt_KeepsTimeout(id) ==
    LET t == timers[id]
        time == Checkpoints[t.idx]
    IN /\ t.st = "running" /\ t.phase = "sleep" /\ t.rem = 0
       /\ t.idx <= NumCheckpoints
       /\ \E ok \in CallOutcomes :
              LET t1 == [t EXCEPT !.last_notification_id = IF ok THEN 1 ELSE 0,
                                  !.log = Append(t.log, LogEntry("warn", time, t, ok))]
              IN timers' = [timers EXCEPT ![id] = EnterSleep(t1, t.idx + 1)]
       /\ UNCHANGED <<pc, rx, timeout, state, active_timer, abort_tasks, quiet,
                      lastEvt, prevState, lastCount, offSinceEvt, prevTimer, newErr,
                      faulty, conf, offFailed, cancelIdx, startErr, obsVars, onceVars>>

\* notification_at whose send_notification propagates the error of show() and ends run
NotificationAt_FailAborts(id) ==
    LET t == timers[id]
        time == Checkpoints[t.idx]
    IN /\ t.st = "running" /\ t.phase = "sleep" /\ t.rem = 0
       /\ t.idx <= NumCheckpoints
       /\ \E ok \in CallOutcomes :
              LET t1 == [t EXCEPT !.timeout = time,
                                  !.last_notification_id = IF ok THEN 1 ELSE 0,
                                  !.log = Append(t.log, LogEntry("warn", time, t, ok))]
              IN timers' = [timers EXCEPT ![id] =
                     IF ok THEN EnterSleep(t1, t.idx + 1) ELSE Finished(t1)]
       /\ UNCHANGED <<pc, rx, timeout, state, active_timer, abort_tasks, quiet,
                      lastEvt, prevState, lastCount, offSinceEvt, prevTimer, newErr,
                      faulty, conf, offFailed, cancelIdx, startErr, obsVars, onceVars>>

\* a sleep inside notification_at resolves: self.timeout = time; send_notification,
\* whose show() error is logged and replaced by the id 0
NotificationAt(id) ==
    LET t == timers[id]
        time == Checkpoints[t.idx]
    IN /\ t.st = "running" /\ t.phase = "sleep" /\ t.rem = 0
       /\ t.idx <= NumCheckpoints
       /\ \E ok \in CallOutcomes :
              LET t1 == [t EXCEPT !.timeout = time,
                                  !.last_notification_id = IF ok THEN 1 ELSE 0,
                                  !.log = Append(t.log, LogEntry("warn", time, t, ok))]
              IN timers' = [timers EXCEPT ![id] = EnterSleep(t1, t.idx + 1)]
       /\ UNCHANGED <<pc, rx, timeout, state, active_timer, abort_tasks, quiet,
                      lastEvt, prevState, lastCount, offSinceEvt, prevTimer, newErr,
                      faulty, conf, offFailed, cancelIdx, startErr, obsVars, onceVars>>

\* the last sleep of run resolves: the task goes on to turn_off_adapter
FinalSleepResolves(id) ==
    LET t == timers[id]
    IN /\ t.st = "running" /\ t.phase = "sleep" /\ t.rem = 0
       /\ t.idx > NumCheckpoints
       /\ timers' = [timers EXCEPT ![id].phase = "off"]
       /\ UNCHANGED <<pc, rx, timeout, state, active_timer, abort_tasks, quiet,
                      lastEvt, prevState, lastCount, offSinceEvt, prevTimer, newErr,
                      faulty, conf, offFailed, cancelIdx, startErr, obsVars, onceVars>>

\* turn_off_adapter called again until it returns Ok
TurnOffAdapter_Retries(id) ==
    LET t == timers[id]
    IN /\ t.st = "running" /\ t.phase = "off"
       /\ \E ok \in CallOutcomes :
              /\ timers' = [timers EXCEPT
                     ![id].phase = IF ok THEN "notify" ELSE "off",
                     ![id].log = Append(t.log, LogEntry("off", 0, t, ok))]
              /\ offFailed' = (offFailed \/ ~ok)
       /\ offSinceEvt' = TRUE
       /\ UNCHANGED <<pc, rx, timeout, state, active_timer, abort_tasks, quiet,
                      lastEvt, prevState, lastCount, prevTimer, newErr,
                      faulty, conf, cancelIdx, startErr, obsVars, onceVars>>

\* turn_off_adapter followed by the task writing the service's fields
TurnOffAdapter_SetsOff(id) ==
    LET t == timers[id]
    IN /\ t.st = "running" /\ t.phase = "off"
       /\ \E ok \in CallOutcomes :
              /\ timers' = [timers EXCEPT
                     ![id].phase = "notify",
                     ![id].log = Append(t.log, LogEntry("off", 0, t, ok))]
              /\ offFailed' = (offFailed \/ ~ok)
       /\ offSinceEvt' = TRUE
       /\ state' = "Off"
       /\ active_timer' = None
       /\ UNCHANGED <<pc, rx, timeout, abort_tasks, quiet,
                      lastEvt, prevState, lastCount, prevTimer, newErr,
                      faulty, conf, cancelIdx, startErr, obsVars, onceVars>>

\* self.service_proxy.turn_off_adapter(): called once, its result only logged
TurnOffAdapter(id) ==
    LET t == timers[id]
    IN /\ t.st = "running" /\ t.phase = "off"
       /\ \E ok \in CallOutcomes :
              /\ timers' = [timers EXCEPT
                     ![id].phase = "notify",
                     ![id].log = Append(t.log, LogEntry("off", 0, t, ok))]
              /\ offFailed' = (offFailed \/ ~ok)
       /\ offSinceEvt' = TRUE
       /\ UNCHANGED <<pc, rx, timeout, state, active_timer, abort_tasks, quiet,
                      lastEvt, prevState, lastCount, prevTimer, newErr,
                      faulty, conf, cancelIdx, startErr, obsVars, onceVars>>

\* run that shows the final Notification only when turn_off_adapter returned Ok
FinalNotification_OnlyOnSuccess(id) ==
    LET t == timers[id]
    IN /\ t.st = "running" /\ t.phase = "notify"
       /\ \E ok \in CallOutcomes :
              timers' = [timers EXCEPT ![id] =
                  Finished(IF t.log[Len(t.log)].ok
                           THEN [t EXCEPT !.log = Append(t.log, LogEntry("final", 0, t, ok))]
                           ELSE t)]
       /\ UNCHANGED <<pc, rx, timeout, state, active_timer, abort_tasks, quiet,
                      lastEvt, prevState, lastCount, offSinceEvt, prevTimer, newErr,
                      faulty, conf, offFailed, cancelIdx, startErr, obsVars, onceVars>>

\* the final Notification of run, its show() error logged, then the task completes
FinalNotification(id) ==
    LET t == timers[id]
    IN /\ t.st = "running" /\ t.phase = "notify"
       /\ \E ok \in CallOutcomes :
              timers' = [timers EXCEPT ![id] =
                  Finished([t EXCEPT !.log = Append(t.log, LogEntry("final", 0, t, ok))])]
       /\ UNCHANGED <<pc, rx, timeout, state, active_timer, abort_tasks, quiet,
                      lastEvt, prevState, lastCount, offSinceEvt, prevTimer, newErr,
                      faulty, conf, offFailed, cancelIdx, startErr, obsVars, onceVars>>

TimerStep ==
    \E id \in DOMAIN timers :
        \/ NotificationAt(id)
        \/ FinalSleepResolves(id)
        \/ TurnOffAdapter(id)
        \/ FinalNotification(id)

(* ----------------------- BluetoothService ------------------------------ *)

\* get_connected_devices_count_from_proxy: get_devices().unwrap_or(vec![])
ConnectedCount(q) == IF q = QueryErr THEN 0 ELSE q

\* the state both on_adapter_on and on_interface_changed derive from a count
Resolve(c) == IF c > 0 THEN "Running" ELSE "Idle"

\* the task slots free once the handle in active_timer has been dropped
FreeSlots == {i \in DOMAIN timers : DropHandle(timers, active_timer)[i].st = "free"}

CanSpawn == FreeSlots # {}

SpawnSlot == CHOOSE i \in FreeSlots : \A j \in FreeSlots : i <= j

\* self.active_timer = Some(TimeoutTask::new(timeout, proxy).spawn()): the
\* handle held before is dropped by the assignment
Spawn(tmo) == [DropHandle(timers, active_timer) EXCEPT ![SpawnSlot] = NewTimeoutTask(tmo)]

\* is_powered().await.unwrap_or(true)
Powered_AssumesOn(p) == IF p = QueryErr THEN TRUE ELSE p = 1

\* is_powered().await.unwrap_or(false); p is 1 (true), 0 (false) or QueryErr
Powered(p) == IF p = QueryErr THEN FALSE ELSE p = 1

\* new whose match has the arm `(false, _) => Off` and no error arm
New_NoStateCheck(conn, q, p) ==
    LET n == ConnectedCount(q)
        powered == Powered(p)
    IN /\ pc = "new"
       /\ IF ~conn
          THEN /\ pc' = "noproxy"
               /\ UNCHANGED <<state, active_timer, timers>>
          ELSE /\ pc' = "created"
               /\ state' = IF ~powered THEN "Off" ELSE Resolve(n)
               /\ IF state' = "Idle"
                  THEN /\ timers' = Spawn(timeout)
                       /\ active_timer' = SpawnSlot
                  ELSE UNCHANGED <<active_timer, timers>>
       /\ UNCHANGED <<rx, timeout, abort_tasks, quiet,
                      lastEvt, prevState, lastCount, offSinceEvt, prevTimer, newErr,
                      faulty, conf, offFailed, cancelIdx, startErr, obsVars, onceVars>>

\* new that starts the timer whenever the adapter is powered
New_SpawnsWhenPowered(conn, q, p) ==
    LET n == ConnectedCount(q)
        powered == Powered(p)
    IN /\ pc = "new"
       /\ IF ~conn
          THEN /\ pc' = "noproxy"
               /\ newErr' = newErr
               /\ UNCHANGED <<state, active_timer, timers>>
          ELSE IF ~powered /\ n > 0
          THEN /\ pc' = "failed"
               /\ newErr' = <<q, p>>
               /\ UNCHANGED <<state, active_timer, timers>>
          ELSE /\ pc' = "created"
               /\ newErr' = newErr
               /\ state' = IF ~powered THEN "Off" ELSE Resolve(n)
               /\ IF powered
                  THEN /\ timers' = Spawn(timeout)
                       /\ active_timer' = SpawnSlot
                  ELSE UNCHANGED <<active_timer, timers>>
       /\ UNCHANGED <<rx, timeout, abort_tasks, quiet,
                      lastEvt, prevState, lastCount, offSinceEvt, prevTimer,
                      faulty, conf, offFailed, cancelIdx, startErr, obsVars, onceVars>>

\* BluetoothService::new: conn tells whether BluetoothServiceProxy::new got its
\* D-Bus connection, q is the device query, p the powered query
New(conn, q, p) ==
    LET n == ConnectedCount(q)
        powered == Powered(p)
    IN /\ pc = "new"
       /\ IF ~conn
          THEN /\ pc' = "noproxy"
               /\ newErr' = newErr
               /\ UNCHANGED <<state, active_timer, timers>>
          ELSE IF ~powered /\ n > 0
          THEN /\ pc' = "failed"
               /\ newErr' = <<q, p>>
               /\ UNCHANGED <<state, active_timer, timers>>
          ELSE /\ pc' = "created"
               /\ newErr' = newErr
               /\ state' = IF ~powered THEN "Off" ELSE Resolve(n)
               /\ IF state' = "Idle"
                  THEN /\ timers' = Spawn(timeout)
                       /\ active_timer' = SpawnSlot
                  ELSE UNCHANGED <<active_timer, timers>>
       /\ UNCHANGED <<rx, timeout, abort_tasks, quiet,
                      lastEvt, prevState, lastCount, offSinceEvt, prevTimer,
                      faulty, conf, offFailed, cancelIdx, startErr, obsVars, onceVars>>

\* BluetoothService::subscribe_to
SubscribeTo ==
    /\ pc \in {"created", "returned"}
    /\ ~rx
    /\ rx' = TRUE
    /\ UNCHANGED <<pc, timeout, state, active_timer, timers, abort_tasks, quiet,
                   lastEvt, prevState, lastCount, offSinceEvt, prevTimer, newErr,
                      faulty, conf, offFailed, cancelIdx, startErr, obsVars, onceVars>>

\* start that reads the receiver through as_mut() and leaves it in self.rx
Start_KeepsReceiver ==
    /\ pc \in {"created", "returned"}
    /\ IF ~rx THEN pc' = "returned" /\ rx' = rx /\ startErr' = "NoReceiver"
              ELSE pc' = "running" /\ rx' = rx /\ startErr' = "none"
    /\ UNCHANGED <<timeout, state, active_timer, timers, abort_tasks, quiet,
                   lastEvt, prevState, lastCount, offSinceEvt, prevTimer, newErr,
                   faulty, conf, offFailed, cancelIdx, obsVars, onceVars>>

\* BluetoothService::start up to its loop, called on a service that new
\* returned or on which an earlier start has returned
Start ==
    /\ pc \in {"created", "returned"}
    /\ IF ~rx THEN pc' = "returned" /\ rx' = rx /\ startErr' = "NoReceiver"
              ELSE pc' = "running" /\ rx' = FALSE /\ startErr' = "none"
    /\ UNCHANGED <<timeout, state, active_timer, timers, abort_tasks, quiet,
                   lastEvt, prevState, lastCount, offSinceEvt, prevTimer, newErr,
                   faulty, conf, offFailed, cancelIdx, obsVars, onceVars>>

\* on_adapter_on whose first arm has no guard on active_timer
OnAdapterOn_Restarts(c) ==
    /\ IF state \in {"Off", "Idle"}
       THEN /\ CanSpawn
            /\ timers' = Spawn(timeout)
            /\ active_timer' = SpawnSlot
       ELSE IF state = "Running" /\ active_timer # None /\ ~IsFinished(active_timer)
       THEN /\ timers' = DropHandle(Abort(timers, active_timer), active_timer)
            /\ active_timer' = None
       ELSE UNCHANGED <<timers, active_timer>>
    /\ state' = Resolve(c)
    /\ UNCHANGED abort_tasks

\* on_adapter_on that sets the state from the count only when it was not Running
OnAdapterOn_KeepsRunning(c) ==
    /\ IF /\ state \in {"Off", "Idle"}
          /\ (active_timer = None \/ IsFinished(active_timer))
       THEN /\ CanSpawn
            /\ timers' = Spawn(timeout)
            /\ active_timer' = SpawnSlot
       ELSE IF state = "Running" /\ active_timer # None /\ ~IsFinished(active_timer)
       THEN /\ timers' = DropHandle(Abort(timers, active_timer), active_timer)
            /\ active_timer' = None
       ELSE UNCHANGED <<timers, active_timer>>
    /\ state' = IF state = "Running" THEN "Running" ELSE Resolve(c)
    /\ UNCHANGED abort_tasks

\* BluetoothService::on_adapter_on; c is the count its query resolves
OnAdapterOn(c) ==
    /\ IF /\ state \in {"Off", "Idle"}
          /\ (active_timer = None \/ IsFinished(active_timer))
       THEN /\ CanSpawn
            /\ timers' = Spawn(timeout)
            /\ active_timer' = SpawnSlot
       ELSE IF state = "Running" /\ active_timer # None /\ ~IsFinished(active_timer)
       THEN /\ timers' = DropHandle(Abort(timers, active_timer), active_timer)
            /\ active_timer' = None
       ELSE UNCHANGED <<timers, active_timer>>
    /\ state' = Resolve(c)
    /\ UNCHANGED abort_tasks

\* on_adapter_off that hands a clone of the handle to the abort task and keeps its own
OnAdapterOff_KeepsHandle ==
    /\ IF active_timer # None
       THEN /\ abort_tasks' = Append(abort_tasks, [timer |-> active_timer, rem |-> GraceSecs])
            /\ UNCHANGED <<timers, active_timer>>
       ELSE UNCHANGED <<abort_tasks, timers, active_timer>>
    /\ state' = "Off"

\* on_adapter_off that takes the handle and lets it go without an abort task
OnAdapterOff_DropsHandle ==
    /\ IF active_timer # None
       THEN /\ timers' = DropHandle(timers, active_timer)
            /\ active_timer' = None
            /\ UNCHANGED abort_tasks
       ELSE UNCHANGED <<abort_tasks, timers, active_timer>>
    /\ state' = "Off"

\* BluetoothService::on_adapter_off
OnAdapterOff ==
    /\ IF active_timer # None
       THEN /\ abort_tasks' = Append(abort_tasks, [timer |-> active_timer, rem |-> GraceSecs])
            /\ timers' = [timers EXCEPT
                   ![active_timer].offReq =
                       /\ timers[active_timer].st = "running"
                       /\ timers[active_timer].phase = "sleep"
                       /\ timers[active_timer].rem > 0]
            /\ active_timer' = None
       ELSE UNCHANGED <<abort_tasks, timers, active_timer>>
    /\ state' = "Off"

\* on_interface_changed that takes the handle and drops it without abort()
OnInterfaceChanged_NoAbort(c) ==
    /\ IF c > 0
       THEN /\ IF active_timer # None
               THEN /\ timers' = DropHandle(timers, active_timer)
                    /\ active_timer' = None
               ELSE UNCHANGED <<timers, active_timer>>
            /\ state' = "Running"
       ELSE /\ IF active_timer = None
               THEN /\ CanSpawn
                    /\ timers' = Spawn(timeout)
                    /\ active_timer' = SpawnSlot
               ELSE UNCHANGED <<timers, active_timer>>
            /\ state' = "Idle"
    /\ UNCHANGED abort_tasks

\* BluetoothService::on_interface_changed; c is the count its query resolves
OnInterfaceChanged(c) ==
    /\ IF c > 0
       THEN /\ IF active_timer # None
               THEN /\ timers' = DropHandle(Abort(timers, active_timer), active_timer)
                    /\ active_timer' = None
               ELSE UNCHANGED <<timers, active_timer>>
            /\ state' = "Running"
       ELSE /\ IF active_timer = None
               THEN /\ CanSpawn
                    /\ timers' = Spawn(timeout)
                    /\ active_timer' = SpawnSlot
               ELSE UNCHANGED <<timers, active_timer>>
            /\ state' = "Idle"
    /\ UNCHANGED abort_tasks

\* what a handler finds in active_timer: no handle, or the handle of a task that
\* is_finished() or not
HandleStatus(h) ==
    IF h = None THEN "none" ELSE IF IsFinished(h) THEN "finished" ELSE "unfinished"

\* the sleep at which the abort() of the handler now running catches the
\* countdown it held: a task that was running and is gone after the handler
CancelledAt ==
    IF /\ active_timer # None
       /\ timers[active_timer].st = "running"
       /\ timers'[active_timer] = FreeSlot
    THEN timers[active_timer].idx ELSE 0

\* the loop of start with `let Ok(event) = rx.recv().await else { continue };`
Recv_SkipsRecvError(r, q) ==
    /\ pc = "running"
    /\ ~quiet
    /\ lastEvt' = r
    /\ prevState' = state
    /\ prevTimer' = HandleStatus(active_timer)
    /\ offSinceEvt' = FALSE
    /\ pc' = pc
    /\ startErr' = startErr
    /\ IF r \in {"Lagged", "Closed"}
       THEN /\ lastCount' = NoCount
            /\ UNCHANGED <<state, active_timer, timers, abort_tasks>>
       ELSE IF r = "AdapterOn"
       THEN OnAdapterOn(ConnectedCount(q)) /\ lastCount' = ConnectedCount(q)
       ELSE IF r = "AdapterOff"
       THEN OnAdapterOff /\ lastCount' = NoCount
       ELSE OnInterfaceChanged(ConnectedCount(q)) /\ lastCount' = ConnectedCount(q)
    /\ cancelIdx' = CancelledAt
    /\ UNCHANGED <<rx, timeout, quiet, newErr, faulty, conf, offFailed, obsVars, onceVars>>

\* one turn of the loop of BluetoothService::start: `rx.recv().await?`, then the match
Recv(r, q) ==
    /\ pc = "running"
    /\ ~quiet
    /\ lastEvt' = r
    /\ prevState' = state
    /\ prevTimer' = HandleStatus(active_timer)
    /\ offSinceEvt' = FALSE
    /\ IF r \in {"Lagged", "Closed"}
       THEN /\ pc' = "returned"
            /\ startErr' = "RecvError"
            /\ lastCount' = NoCount
            /\ UNCHANGED <<state, active_timer, timers, abort_tasks>>
       ELSE /\ pc' = pc
            /\ startErr' = startErr
            /\ IF r = "AdapterOn"
               THEN OnAdapterOn(ConnectedCount(q)) /\ lastCount' = ConnectedCount(q)
               ELSE IF r = "AdapterOff"
               THEN OnAdapterOff /\ lastCount' = NoCount
               ELSE OnInterfaceChanged(ConnectedCount(q)) /\ lastCount' = ConnectedCount(q)
    /\ cancelIdx' = CancelledAt
    /\ UNCHANGED <<rx, timeout, quiet, newErr, faulty, conf, offFailed, obsVars, onceVars>>

\* the task spawned by on_adapter_off wakes after its sleep
DeferredAbort ==
    /\ abort_tasks # <<>>
    /\ Head(abort_tasks).rem = 0
    /\ timers' = DropHandle(IF ~IsFinished(Head(abort_tasks).timer)
                            THEN Abort(timers, Head(abort_tasks).timer)
                            ELSE timers,
                            Head(abort_tasks).timer)
    /\ abort_tasks' = Tail(abort_tasks)
    /\ UNCHANGED <<pc, rx, timeout, state, active_timer, quiet,
                   lastEvt, prevState, lastCount, offSinceEvt, prevTimer, newErr,
                   faulty, conf, offFailed, cancelIdx, startErr, obsVars, onceVars>>

(* --------------------------- environment ------------------------------- *)

\* some task is due now: its sleep has ended, or it is between two awaits
Due ==
    \/ \E id \in DOMAIN timers :
           timers[id].st = "running" /\ (timers[id].phase # "sleep" \/ timers[id].rem = 0)
    \/ \E k \in 1..Len(abort_tasks) : abort_tasks[k].rem = 0

\* one second passes for every sleeping task
Tick ==
    /\ ~Due
    /\ timers' = [id \in DOMAIN timers |->
                     IF timers[id].st = "running"
                     THEN [timers[id] EXCEPT !.rem = @ - 1, !.elapsed = @ + 1]
                     ELSE timers[id]]
    /\ abort_tasks' = [k \in 1..Len(abort_tasks) |->
                          [abort_tasks[k] EXCEPT !.rem = @ - 1]]
    /\ UNCHANGED <<pc, rx, timeout, state, active_timer, quiet,
                   lastEvt, prevState, lastCount, offSinceEvt, prevTimer, newErr,
                      faulty, conf, offFailed, cancelIdx, startErr, obsVars, onceVars>>

\* the event source falls silent: recv() stays pending from now on
Quiesce ==
    /\ pc = "running"
    /\ ~quiet
    /\ quiet' = TRUE
    /\ UNCHANGED <<pc, rx, timeout, state, active_timer, timers, abort_tasks,
                   lastEvt, prevState, lastCount, offSinceEvt, prevTimer, newErr,
                   faulty, conf, offFailed, cancelIdx, startErr, obsVars, onceVars>>

(* -------------------------- specification ------------------------------ *)

\* Conf::default(): notifications_enabled and notifications_at
DefaultConf ==
    [notifications_enabled |-> TRUE, notifications_at |-> <<300, 60, 30, 10>>]

\* before BluetoothService::new: tmo is the configured timeout, n the number of
\* task slots, f tells whether calls made by a countdown can fail, c is the Conf
StartWith(tmo, n, f, c) ==
    /\ pc = "new"
    /\ rx = FALSE
    /\ timeout = tmo
    /\ state = "Off"
    /\ active_timer = None
    /\ timers = [i \in 1..n |-> FreeSlot]
    /\ abort_tasks = <<>>
    /\ quiet = FALSE
    /\ lastEvt = "none"
    /\ prevState = "Off"
    /\ lastCount = NoCount
    /\ offSinceEvt = FALSE
    /\ prevTimer = "none"
    /\ newErr = <<>>
    /\ faulty = f
    /\ conf = c
    /\ offFailed = FALSE
    /\ cancelIdx = 0
    /\ startErr = "none"
    /\ obs_pc = "new"
    /\ device_count_fallback = 0
    /\ receivers = 0
    /\ obs_log = <<>>
    /\ CONF = <<>>
    /\ conf_calls = <<>>

\* the start with the default Conf, in an environment where the calls of a
\* countdown succeed
Start0(tmo, n) == StartWith(tmo, n, FALSE, DefaultConf)

\* Conf values a config file can hold: the defaults, notifications switched
\* off, and a list of checkpoints of its own
Confs ==
    {DefaultConf,
     [notifications_enabled |-> FALSE, notifications_at |-> <<300, 60, 30, 10>>],
     [notifications_enabled |-> TRUE, notifications_at |-> <<20, 5>>]}

Init == \E tmo \in Timeouts : Start0(tmo, MaxTimers)

InitLong == Start0(LongTimeout, LongTimers)

\* the long countdown where turn_off_adapter and the notification sends can fail
InitFaults == StartWith(LongTimeout, LongTimers, TRUE, DefaultConf)

\* countdowns whose timeout equals a checkpoint
InitEdge == \E tmo \in EdgeTimeouts : Start0(tmo, LongTimers)

\* the long countdown under each Conf
InitConf == \E c \in Confs : StartWith(LongTimeout, LongTimers, FALSE, c)

(* ----------------------- BluetoothObserver ----------------------------- *)

\* the PropertiesChanged signals run can take: one whose body does not parse,
\* and the parsed ones by interface, changed property and the property's value
Signals ==
    {[parses |-> FALSE, iface |-> "other", prop |-> "other", val |-> "notbool"]}
    \cup [parses : {TRUE},
          iface : {"org.bluez.Adapter1", "org.bluez.Device1", "other"},
          prop : {"Powered", "Connected", "other"},
          val : {"true", "false", "notbool"}]

\* changed_props.get(name).map(|v| bool::try_from(v).ok()).flatten(): "none",
\* or the boolean the property holds
PropBool(sig, name) ==
    IF sig.prop = name /\ sig.val \in {"true", "false"} THEN sig.val ELSE "none"

\* the `match iface` of run: the event a parsed signal stands for, or "none"
EventKind(sig) ==
    IF sig.iface = "org.bluez.Adapter1"
    THEN IF PropBool(sig, "Powered") = "true" THEN "AdapterOn"
         ELSE IF PropBool(sig, "Powered") = "false" THEN "AdapterOff"
         ELSE "none"
    ELSE IF sig.iface = "org.bluez.Device1"
    THEN IF PropBool(sig, "Connected") = "true" THEN "DeviceConnected"
         ELSE IF PropBool(sig, "Connected") = "false" THEN "DeviceDisconnected"
         ELSE "none"
    ELSE "none"

DeviceEvents == {"DeviceConnected", "DeviceDisconnected"}

\* the update get_device_count is called with for a device event
UpdateOf(kind) == IF kind = "DeviceConnected" THEN 1 ELSE -1

\* get_device_count without max(0, ..)
FallbackAfter_Unclamped(fb, update) == fb + update

\* get_device_count: max(0, self.device_count_fallback as i32 + update) as usize
FallbackAfter(fb, update) == IF fb + update < 0 THEN 0 ELSE fb + update

\* get_device_count: get_authoritative_device_count().unwrap_or(fallback)
ReportedCount(a, fb) == IF a = QueryErr THEN fb ELSE a

\* what run did with one signal: skipped it as malformed or unrelated, or made
\* an event of it with the authoritative count it got (QueryErr when the
\* query failed), the count it put into the event, and whether send returned Ok
ObsEntry(cls, kind, a, count, delivered) ==
    [cls |-> cls, kind |-> kind, auth |-> a, count |-> count, delivered |-> delivered]

\* BluetoothObserver::new: a is the initial authoritative count, or QueryErr
ObserverNew(a) ==
    /\ obs_pc = "new"
    /\ IF a = QueryErr
       THEN obs_pc' = "failed" /\ UNCHANGED device_count_fallback
       ELSE obs_pc' = "created" /\ device_count_fallback' = a
    /\ UNCHANGED <<receivers, obs_log, svcVars, onceVars>>

\* BluetoothObserver::subscribe
Subscribe ==
    /\ obs_pc = "created"
    /\ receivers < MaxReceivers
    /\ receivers' = receivers + 1
    /\ UNCHANGED <<obs_pc, device_count_fallback, obs_log, svcVars, onceVars>>

\* a broadcast::Receiver is dropped
DropReceiver ==
    /\ obs_pc \in {"created", "listening"}
    /\ receivers > 0
    /\ receivers' = receivers - 1
    /\ UNCHANGED <<obs_pc, device_count_fallback, obs_log, svcVars, onceVars>>

\* BluetoothObserver::listen and run up to its loop: ok tells whether the
\* proxy, introspect and receive_signal calls succeeded; otherwise run returns
\* Err and the spawned task panics
Listen(ok) ==
    /\ obs_pc = "created"
    /\ obs_pc' = IF ok THEN "listening" ELSE "panicked"
    /\ UNCHANGED <<device_count_fallback, receivers, obs_log, svcVars, onceVars>>

\* a loop of run that returns the parse error of a signal with `?`
Signal_ParseErrorEnds(sig, a) ==
    LET kind == EventKind(sig)
        fb == FallbackAfter(device_count_fallback, UpdateOf(kind))
    IN /\ obs_pc = "listening"
       /\ Len(obs_log) < MaxSignals
       /\ IF ~sig.parses
          THEN /\ obs_pc' = "panicked"
               /\ UNCHANGED <<obs_log, device_count_fallback>>
          ELSE IF kind \in DeviceEvents
          THEN /\ obs_pc' = obs_pc
               /\ device_count_fallback' = fb
               /\ obs_log' = Append(obs_log,
                      ObsEntry("event", kind, a, ReportedCount(a, fb), receivers > 0))
          ELSE /\ obs_pc' = obs_pc
               /\ UNCHANGED device_count_fallback
               /\ obs_log' = Append(obs_log,
                      IF kind = "none"
                      THEN ObsEntry("unrelated", "none", NoCount, NoCount, FALSE)
                      ELSE ObsEntry("event", kind, NoCount, NoCount, receivers > 0))
       /\ UNCHANGED <<receivers, svcVars, onceVars>>

\* one turn of the loop of run: the signal sig, and the outcome a of the
\* authoritative query get_device_count makes for a device event
Signal(sig, a) ==
    LET kind == EventKind(sig)
        fb == FallbackAfter(device_count_fallback, UpdateOf(kind))
    IN /\ obs_pc = "listening"
       /\ Len(obs_log) < MaxSignals
       /\ obs_pc' = obs_pc
       /\ IF ~sig.parses
          THEN /\ UNCHANGED device_count_fallback
               /\ obs_log' = Append(obs_log,
                      ObsEntry("malformed", "none", NoCount, NoCount, FALSE))
          ELSE IF kind \in DeviceEvents
          THEN /\ device_count_fallback' = fb
               /\ obs_log' = Append(obs_log,
                      ObsEntry("event", kind, a, ReportedCount(a, fb), receivers > 0))
          ELSE /\ UNCHANGED device_count_fallback
               /\ obs_log' = Append(obs_log,
                      IF kind = "none"
                      THEN ObsEntry("unrelated", "none", NoCount, NoCount, FALSE)
                      ELSE ObsEntry("event", kind, NoCount, NoCount, receivers > 0))
       /\ UNCHANGED <<receivers, svcVars, onceVars>>

\* props_changed.next() yields None: the loop ends and run returns Ok
StreamEnds ==
    /\ obs_pc = "listening"
    /\ obs_pc' = "ended"
    /\ UNCHANGED <<device_count_fallback, receivers, obs_log, svcVars, onceVars>>

NextObserver ==
    \/ \E a \in QueryResults : ObserverNew(a)
    \/ Subscribe
    \/ DropReceiver
    \/ \E ok \in BOOLEAN : Listen(ok)
    \/ \E sig \in Signals, a \in QueryResults : Signal(sig, a)
    \/ StreamEnds

(* ------------------------------ Conf ------------------------------------ *)

\* the config file a call finds: unreadable, readable but not parseable, or
\* holding a Conf
Files ==
    {[readable |-> FALSE, parses |-> FALSE, value |-> DefaultConf],
     [readable |-> TRUE, parses |-> FALSE, value |-> DefaultConf]}
    \cup [readable : {TRUE}, parses : {TRUE}, value : Confs]

\* what a call that reads no file is recorded with
NoFile == [readable |-> FALSE, parses |-> FALSE, value |-> DefaultConf]

\* the closure of from_file: read_to_string, serde_yaml::from_str, or Conf::default()
ReadConf(f) == IF f.readable /\ f.parses THEN f.value ELSE DefaultConf

\* OnceLock::get_or_init: the value held afterwards
GetOrInit(c) == IF CONF = <<>> THEN <<c>> ELSE CONF

\* a call of fn that found the file f and returned ret
ConfCall(fn, f, ret) == [fn |-> fn, file |-> f, ret |-> ret]

\* from_file that stores what it read even when CONF is already set
FromFile_Reloads(fn, f) ==
    /\ Len(conf_calls) < MaxConfCalls
    /\ CONF' = <<ReadConf(f)>>
    /\ conf_calls' = Append(conf_calls, ConfCall(fn, f, CONF'[1]))
    /\ UNCHANGED <<svcVars, obsVars>>

\* Conf::from_file, called directly (fn = "from_file") or by load (fn = "load")
FromFile(fn, f) ==
    /\ Len(conf_calls) < MaxConfCalls
    /\ CONF' = IF CONF # <<>> THEN CONF ELSE GetOrInit(ReadConf(f))
    /\ conf_calls' = Append(conf_calls, ConfCall(fn, f, CONF'[1]))
    /\ UNCHANGED <<svcVars, obsVars>>

\* Conf::instance, called directly (no file) or by load when conf_filepath
\* returned Err
Instance(fn, f) ==
    /\ Len(conf_calls) < MaxConfCalls
    /\ CONF' = GetOrInit(DefaultConf)
    /\ conf_calls' = Append(conf_calls, ConfCall(fn, f, CONF'[1]))
    /\ UNCHANGED <<svcVars, obsVars>>

\* Conf::load: pathOk tells whether conf_filepath returned Ok
Load(pathOk, f) ==
    IF pathOk THEN FromFile("load", f) ELSE Instance("load", f)

NextOnce ==
    \/ \E f \in Files : FromFile("from_file", f)
    \/ Instance("instance", NoFile)
    \/ \E pathOk \in BOOLEAN, f \in Files : Load(pathOk, f)

Next ==
    \/ \E conn \in BOOLEAN, q \in QueryResults, p \in PoweredResults : New(conn, q, p)
    \/ SubscribeTo
    \/ Start
    \/ \E r \in RecvOutcomes, q \in QueryResults : Recv(r, q)
    \/ TimerStep
    \/ DeferredAbort
    \/ Tick
    \/ Quiesce

Spec == Init /\ [][Next]_vars

SpecLong == InitLong /\ [][Next]_vars

SpecFaults == InitFaults /\ [][Next]_vars

SpecEdge == InitEdge /\ [][Next]_vars

SpecConf == InitConf /\ [][Next]_vars

\* the observer on its own: new, subscribe, listen and the loop of run
SpecObserver == InitLong /\ [][NextObserver]_vars

\* the calls on the static CONF on their own
SpecOnce == InitLong /\ [][NextOnce]_vars

\* the runtime polls a task whose sleep has ended, and time passes
FairSpec == Spec /\ WF_vars(TimerStep) /\ WF_vars(DeferredAbort) /\ WF_vars(Tick)

(* ----------------------------- claims ---------------------------------- *)

LiveTimers == {i \in DOMAIN timers : timers[i].st = "running"}

Kinds(log, kind) == {k \in 1..Len(log) : log[k].kind = kind}

\* one turn of the start loop that received r
Handled(r) == \E q \in QueryResults : Recv(r, q)

\* C1: once the service exists, a countdown task that has neither finished nor
\* been aborted exists if and only if the state is Idle, unless an abort task
\* is still waiting to cancel a countdown or the countdown held in
\* active_timer has run to completion.
C1_TimerIffIdle ==
    (/\ pc \in {"created", "running"}
     /\ abort_tasks = <<>>
     /\ ~(active_timer # None /\ IsFinished(active_timer)))
    => ((LiveTimers # {}) <=> (state = "Idle"))

\* C2: at most one countdown task that is neither finished nor aborted exists
\* at any time.
C2_AtMostOneLiveTimer == Cardinality(LiveTimers) <= 1

\* C3: a countdown that was the active timer when AdapterOff was handled, and
\* whose sleep had not yet ended at that moment, never calls turn_off_adapter.
C3_NoPowerOffAfterAdapterOff ==
    \A i \in DOMAIN timers : timers[i].offReq => Kinds(timers[i].log, "off") = {}

\* C4: when the state is Idle and no further event is delivered, a countdown
\* eventually calls turn_off_adapter (or has called it since the last event).
C4_IdleLeadsToPowerOff ==
    (quiet /\ pc = "running" /\ state = "Idle") ~> offSinceEvt

\* C5: the countdown the service holds in active_timer, whose cancellation it
\* has not requested, never calls turn_off_adapter while the state is Running.
C5_NoPowerOffWhileRunning ==
    active_timer # None =>
        \A k \in Kinds(timers[active_timer].log, "off") :
            timers[active_timer].log[k].state # "Running"

\* C6: after AdapterOn has been handled in state Running the state is still
\* Running, whatever count the handler resolved.
C6_AdapterOnWhileRunningKeepsState ==
    (lastEvt = "AdapterOn" /\ prevState = "Running") => state = "Running"

\* C7: handling AdapterOff in state Off leaves the state Off, spawns no task,
\* hands no task to an abort task, aborts none, and the loop goes on.
C7_AdapterOffWhileOffIsNoOp ==
    [][(state = "Off" /\ Handled("AdapterOff"))
         => (state' = "Off" /\ pc' = "running"
             /\ UNCHANGED <<active_timer, timers, abort_tasks>>)]_vars

\* AdapterOff has just been handled in state Off
C7_Witness ==
    lastEvt = "AdapterOff" /\ prevState = "Off" /\ state = "Off" /\ pc = "running"

\* C8: in the log of every countdown the warnings carry strictly decreasing
\* remaining times, no warning follows the turn_off_adapter call, and a
\* countdown that ran to completion has warned exactly once for each
\* checkpoint below the configured timeout.
C8_WarningsStrictlyDecreasing ==
    \A i \in DOMAIN timers :
        LET log == timers[i].log
        IN /\ \A a, b \in Kinds(log, "warn") : a < b => log[a].rem > log[b].rem
           /\ \A a \in Kinds(log, "off"), b \in Kinds(log, "warn") : b < a
           /\ timers[i].st = "finished" =>
                 \A c \in 1..NumCheckpoints :
                     Checkpoints[c] < timeout =>
                         Cardinality({k \in Kinds(log, "warn") :
                                         log[k].rem = Checkpoints[c]}) = 1

\* a countdown has run to completion after two warnings
C8_Witness ==
    \E i \in DOMAIN timers :
        /\ timers[i].st = "finished"
        /\ Cardinality(Kinds(timers[i].log, "warn")) >= 2
        /\ Kinds(timers[i].log, "off") # {}

\* C9: after recv() has reported Lagged, the handler has made a recount and the
\* state is the one that count resolves to.
C9_LagForcesRecount ==
    lastEvt = "Lagged" => (lastCount # NoCount /\ state = Resolve(lastCount))

\* C10: after recv() has reported Lagged, start has not returned.
C10_LagKeepsLoopRunning ==
    lastEvt = "Lagged" => pc = "running"

\* C11: in the log of every countdown each warning carries a remaining time c
\* below the configured timeout D and is made at elapsed time exactly D - c,
\* turn_off_adapter is called at elapsed time exactly D, the final notification
\* comes after that call, no sleep has a negative length, and a countdown that
\* ran to completion has warned for every checkpoint below D.
C11_ExactTimes ==
    \A i \in DOMAIN timers :
        LET log == timers[i].log
        IN /\ \A k \in Kinds(log, "warn") :
                 log[k].rem < timeout /\ log[k].elapsed = timeout - log[k].rem
           /\ \A k \in Kinds(log, "off") : log[k].elapsed = timeout
           /\ \A k \in Kinds(log, "final") : \E j \in Kinds(log, "off") : j < k
           /\ timers[i].st = "running" =>
                 timers[i].rem >= 0 /\ timers[i].elapsed + timers[i].rem <= timeout
           /\ timers[i].st = "finished" =>
                 /\ Kinds(log, "final") # {}
                 /\ \A c \in 1..NumCheckpoints :
                        Checkpoints[c] < timeout =>
                            \E k \in Kinds(log, "warn") : log[k].rem = Checkpoints[c]

\* a countdown that was never cancelled has warned twice, called
\* turn_off_adapter and made its final notification
C11_Witness ==
    \E i \in DOMAIN timers :
        /\ timers[i].st = "finished"
        /\ Cardinality(Kinds(timers[i].log, "warn")) = 2
        /\ Kinds(timers[i].log, "final") # {}

Hints == {"InterfaceAdded", "InterfaceRemoved"}

\* C12: when a hint is handled in state Idle with an unfinished countdown in
\* active_timer and the recount is above 0, the state becomes Running, the
\* handle is taken and the countdown task is gone at once, so it takes no
\* further step.
C12_HintWithDevicesCancels ==
    [][(/\ state = "Idle"
        /\ HandleStatus(active_timer) = "unfinished"
        /\ \E r \in Hints : Handled(r)
        /\ lastCount' > 0)
         => (/\ state' = "Running"
             /\ active_timer' = None
             /\ timers'[active_timer] = FreeSlot)]_vars

\* a hint with a recount above 0 has just been handled in Idle with an
\* unfinished countdown
C12_Witness ==
    /\ lastEvt \in Hints /\ prevState = "Idle" /\ prevTimer = "unfinished"
    /\ lastCount > 0 /\ state = "Running" /\ active_timer = None

\* C13: when the powered query returns false and the device query reports more
\* than 0 connected devices, new returns an error, no task has been spawned,
\* and nothing happens to the service afterwards.
C13_InconsistentInitFails ==
    [][/\ \A q \in QueryResults :
              (New(TRUE, q, 0) /\ q > 0)
                  => (/\ pc' = "failed"
                      /\ active_timer' = None
                      /\ \A i \in DOMAIN timers : timers'[i] = FreeSlot)
       /\ pc = "failed" => (pc' = "failed" /\ UNCHANGED <<state, active_timer, timers>>)
      ]_vars

\* new has returned the error for powered = false with a device connected
C13_Witness ==
    pc = "failed" /\ newErr # <<>> /\ newErr[1] > 0 /\ newErr[2] = 0

\* C14 as stated: new succeeds for every outcome of the two queries other than
\* powered = false with more than 0 devices reported, a failed query included.
C14_OnlyInconsistentFails ==
    [][\A q \in QueryResults, p \in PoweredResults :
          (New(TRUE, q, p) /\ ~(p = 0 /\ q > 0)) => pc' = "created"]_vars

\* C14 amended: new fails exactly when the proxy gets no D-Bus connection, or
\* the powered query returned false or failed while the device query reported
\* more than 0 devices; a failed device query never makes it fail.
C14_FailsIffNotKnownPoweredWithDevices ==
    [][\A conn \in BOOLEAN, q \in QueryResults, p \in PoweredResults :
          New(conn, q, p) =>
              /\ (pc' # "created") <=> (~conn \/ (p \in {0, QueryErr} /\ q > 0))
              /\ pc' \in {"created", "failed", "noproxy"}]_vars

\* new has returned the error after a failed powered query with a device connected
C14_Witness ==
    pc = "failed" /\ newErr # <<>> /\ newErr[1] > 0 /\ newErr[2] = QueryErr

\* C15: when new succeeds, (not powered, 0 devices) gives Off with no task,
\* (powered, 0) gives Idle with exactly one task, freshly spawned and held in
\* active_timer, and (powered, n > 0) gives Running with no task.
C15_InitialState ==
    [][\A q \in QueryResults, p \in PoweredResults :
          (New(TRUE, q, p) /\ pc' = "created") =>
              LET n == ConnectedCount(q)
                  powered == Powered(p)
              IN /\ (~powered /\ n = 0) =>
                       (state' = "Off" /\ active_timer' = None /\ LiveTimers' = {})
                 /\ (powered /\ n = 0) =>
                       (/\ state' = "Idle"
                        /\ active_timer' # None
                        /\ LiveTimers' = {active_timer'}
                        /\ timers'[active_timer'] = NewTimeoutTask(timeout))
                 /\ (powered /\ n > 0) =>
                       (state' = "Running" /\ active_timer' = None /\ LiveTimers' = {})
      ]_vars

\* new has just produced an Idle service with its one fresh countdown
C15_Witness ==
    /\ pc = "created" /\ state = "Idle" /\ active_timer # None
    /\ timers[active_timer] = NewTimeoutTask(timeout)
    /\ LiveTimers = {active_timer}

\* C16: when recv() reports the channel closed, start returns (its only return
\* value is an error); it also returns at once when no receiver was
\* subscribed; once it has returned it handles nothing more unless start is
\* called again with a new receiver.
C16_ClosedChannelEndsStart ==
    [][/\ Handled("Closed") => pc' = "returned"
       /\ (Start /\ ~rx) => pc' = "returned"
       /\ pc = "returned" =>
              (/\ pc' = "returned" \/ (Start /\ rx)
               /\ UNCHANGED <<state, active_timer>>)
      ]_vars

\* start has returned because the channel was closed
C16_Witness ==
    pc = "returned" /\ lastEvt = "Closed"

\* C17: after AdapterOn has been handled in state Off with a recount above 0,
\* the state is Running and active_timer holds no unfinished countdown.
C17_AdapterOnInOffSpawnsOnlyIfIdle ==
    (lastEvt = "AdapterOn" /\ prevState = "Off" /\ lastCount > 0)
        => (state = "Running" /\ HandleStatus(active_timer) # "unfinished")

\* C18: after a hint has been handled in state Off the state is still Off and
\* the service holds no countdown.
C18_HintInOffIsNoOp ==
    (lastEvt \in Hints /\ prevState = "Off")
        => (state = "Off" /\ active_timer = None)

\* C19: handling AdapterOn in state Idle leaves the state Idle and leaves
\* active_timer and every countdown task as they were.
C19_AdapterOnInIdleIsNoOp ==
    [][(state = "Idle" /\ Handled("AdapterOn"))
         => (state' = "Idle" /\ UNCHANGED <<active_timer, timers>>)]_vars

\* C20: after AdapterOff has been handled the state is Off, active_timer is
\* None, and no countdown that the service held is still running.
C20_AdapterOffCancels ==
    lastEvt = "AdapterOff"
        => (/\ state = "Off"
            /\ active_timer = None
            /\ \A k \in 1..Len(abort_tasks) : IsFinished(abort_tasks[k].timer))

\* C21: when a hint is handled in state Idle and the recount is 0, the state
\* is Idle afterwards and active_timer holds a countdown that has not finished.
C21_HintInIdleKeepsCountdown ==
    [][(/\ state = "Idle"
        /\ \E r \in Hints : Handled(r)
        /\ lastCount' = 0)
         => (/\ state' = "Idle"
             /\ active_timer' # None
             /\ timers'[active_timer'].st = "running")]_vars

\* C22: when a hint is handled in state Running, a recount of 0 makes the state
\* Idle with a countdown spawned in that very step, with its full duration
\* ahead, in active_timer; a recount above 0 leaves the state Running with no
\* countdown held.
C22_IdleEntryStartsFreshCountdown ==
    [][(state = "Running" /\ \E r \in Hints : Handled(r))
         => /\ lastCount' = 0 =>
                  (/\ state' = "Idle"
                   /\ active_timer' # None
                   /\ timers'[active_timer'] = NewTimeoutTask(timeout))
            /\ lastCount' > 0 => (state' = "Running" /\ active_timer' = None)]_vars

\* C23: while the state is Idle and active_timer holds an unfinished countdown,
\* handling AdapterOn, or a hint whose recount is 0, spawns no task and leaves
\* every countdown, its elapsed and remaining time included, and the handle as
\* they were.
C23_NoRestartWhileCountdownActive ==
    [][(/\ state = "Idle"
        /\ HandleStatus(active_timer) = "unfinished"
        /\ \/ Handled("AdapterOn")
           \/ (\E r \in Hints : Handled(r)) /\ lastCount' = 0)
         => UNCHANGED <<active_timer, timers, abort_tasks>>]_vars

\* AdapterOn has just been handled in Idle while a countdown that had already
\* run for some time was active, and that countdown is still the active one
C23_Witness ==
    /\ lastEvt = "AdapterOn" /\ prevState = "Idle" /\ prevTimer = "unfinished"
    /\ active_timer # None
    /\ timers[active_timer].st = "running"
    /\ timers[active_timer].elapsed > 0
    /\ Cardinality(LiveTimers) = 1

\* C24: when the device query of on_adapter_on or of on_interface_added fails
\* while the state is Running (the last count known was above 0), the handler
\* does not resolve the count as 0: the state stays Running, no countdown is
\* spawned, and the loop goes on.
C24_FailedQueryKeepsKnownCount ==
    [][\A r \in {"AdapterOn", "InterfaceAdded"} :
          (state = "Running" /\ Recv(r, QueryErr))
              => (state' = "Running" /\ pc' = "running" /\ LiveTimers' \subseteq LiveTimers)]_vars

\* C25: whichever notification sends fail, every countdown still warns in
\* strictly decreasing order of remaining time, a countdown that has ended has
\* warned for every checkpoint c below the timeout D at elapsed time D - c,
\* called turn_off_adapter at elapsed time D and made its final notification.
C25_FailedSendsDoNotStopCountdown ==
    \A i \in DOMAIN timers :
        LET log == timers[i].log
        IN /\ \A a, b \in Kinds(log, "warn") : a < b => log[a].rem > log[b].rem
           /\ timers[i].st = "finished" =>
                 /\ \A c \in 1..NumCheckpoints :
                        Checkpoints[c] < timeout =>
                            \E k \in Kinds(log, "warn") :
                                /\ log[k].rem = Checkpoints[c]
                                /\ log[k].elapsed = timeout - Checkpoints[c]
                 /\ \E k \in Kinds(log, "off") : log[k].elapsed = timeout
                 /\ \E k \in Kinds(log, "final") : k = Len(log)

\* a countdown has run to completion although both of its warnings failed to
\* be delivered
C25_Witness ==
    \E i \in DOMAIN timers :
        /\ timers[i].st = "finished"
        /\ Cardinality(Kinds(timers[i].log, "warn")) = 2
        /\ \A k \in Kinds(timers[i].log, "warn") : ~timers[i].log[k].ok
        /\ Kinds(timers[i].log, "off") # {}

\* the step in which the turn_off_adapter call of task id returns Err
OffFails(id) ==
    TurnOffAdapter(id) /\ ~timers'[id].log[Len(timers'[id].log)].ok

\* C26: a turn_off_adapter call that fails is the only one its countdown
\* makes, the task goes on to its final notification and completes, the state
\* and the loop of start are left as they were; afterwards a hint with a
\* recount above 0 takes the finished handle (Running, no countdown), and a
\* hint with a recount of 0 in that state makes the state Idle and spawns a
\* fresh countdown.
C26_FailedPowerOffNoRetry ==
    [][/\ \A id \in DOMAIN timers :
              /\ OffFails(id) =>
                     (/\ timers'[id].st = "running"
                      /\ timers'[id].phase = "notify"
                      /\ UNCHANGED <<state, pc, active_timer>>)
              /\ Cardinality(Kinds(timers'[id].log, "off")) <= 1
              /\ FinalNotification(id) =>
                     (timers'[id].st = "finished" /\ UNCHANGED <<state, pc>>)
       /\ (/\ offFailed /\ state = "Idle" /\ HandleStatus(active_timer) = "finished"
           /\ \E r \in Hints : Handled(r)
           /\ lastCount' > 0)
            => (state' = "Running" /\ active_timer' = None)
       /\ (/\ offFailed /\ state = "Running" /\ active_timer = None
           /\ \E r \in Hints : Handled(r)
           /\ lastCount' = 0)
            => (/\ state' = "Idle"
                /\ active_timer' # None
                /\ timers'[active_timer'] = NewTimeoutTask(timeout))
      ]_vars

\* after a failed turn_off_adapter a device connected and disconnected, and the
\* service is Idle again with a fresh countdown
C26_Witness ==
    /\ offFailed
    /\ lastEvt \in Hints /\ prevState = "Running" /\ prevTimer = "none" /\ lastCount = 0
    /\ state = "Idle" /\ active_timer # None
    /\ timers[active_timer] = NewTimeoutTask(timeout)

\* C27: a checkpoint at or above the timeout D causes neither a sleep nor a
\* warning: every sleep of a countdown ends at D - c for a checkpoint c below
\* D (or at D for the final sleep) and has a positive length, every warning
\* names a checkpoint below D, turn_off_adapter is called at elapsed time D,
\* and a countdown that has ended has warned exactly once, at D - c, for
\* every checkpoint c below D.
C27_CheckpointAtOrAboveTimeoutSkipped ==
    \A i \in DOMAIN timers :
        LET log == timers[i].log
            t == timers[i]
        IN /\ \A k \in Kinds(log, "warn") : log[k].rem < timeout
           /\ (t.st = "running" /\ t.phase = "sleep") =>
                 /\ t.idx <= NumCheckpoints =>
                        (/\ Checkpoints[t.idx] < timeout
                         /\ t.elapsed + t.rem = timeout - Checkpoints[t.idx])
                 /\ t.idx > NumCheckpoints => t.elapsed + t.rem = timeout
                 /\ t.elapsed = 0 => t.rem > 0
           /\ \A k \in Kinds(log, "off") : log[k].elapsed = timeout
           /\ t.st = "finished" =>
                 /\ Kinds(log, "off") # {}
                 /\ \A c \in 1..NumCheckpoints :
                        Checkpoints[c] < timeout =>
                            Cardinality({k \in Kinds(log, "warn") :
                                            /\ log[k].rem = Checkpoints[c]
                                            /\ log[k].elapsed = timeout - Checkpoints[c]}) = 1

\* a countdown of 30 s has ended after its only warning, the one for 10 s
C27_Witness ==
    \E i \in DOMAIN timers :
        /\ timeout = Checkpoints[3]
        /\ timers[i].st = "finished"
        /\ Cardinality(Kinds(timers[i].log, "warn")) = 1
        /\ \E k \in Kinds(timers[i].log, "off") : timers[i].log[k].elapsed = timeout

\* C28: when a handler or an abort task aborts a countdown, at whichever sleep
\* or call the countdown is suspended, the task is gone in that very step with
\* nothing more logged, and a slot whose task is gone takes no step until a
\* fresh countdown is spawned into it.
C28_CancelledTaskTakesNoStep ==
    [][/\ (/\ active_timer # None
           /\ \E r \in Hints : Handled(r)
           /\ lastCount' > 0)
            => (timers'[active_timer] = FreeSlot /\ active_timer' = None)
       /\ DeferredAbort => timers'[Head(abort_tasks).timer] = FreeSlot
       /\ \A i \in DOMAIN timers :
              timers[i].st = "free" =>
                  (timers'[i] = FreeSlot \/ timers'[i] = NewTimeoutTask(timeout))
      ]_vars

\* a hint with a recount above 0 has just cancelled a countdown in its final
\* sleep, after both warnings, and no task is left
C28_Witness ==
    /\ lastEvt \in Hints /\ lastCount > 0 /\ prevTimer = "unfinished"
    /\ cancelIdx = NumCheckpoints + 1
    /\ active_timer = None
    /\ \A i \in DOMAIN timers : timers[i] = FreeSlot

\* C29: every step of a countdown (a warning, the end of the final sleep,
\* turn_off_adapter, the final notification) leaves the state, active_timer,
\* the receiver, the timeout and the loop of start unchanged; the state and
\* active_timer change only in new and in a handler of start.
C29_TimerLeavesServiceFieldsAlone ==
    [][/\ TimerStep => UNCHANGED <<state, active_timer, pc, rx, timeout, abort_tasks>>
       /\ (state' # state \/ active_timer' # active_timer) =>
              \/ \E conn \in BOOLEAN, q \in QueryResults, p \in PoweredResults :
                     New(conn, q, p)
              \/ \E r \in Events : Handled(r)
      ]_vars

\* a countdown has taken every step of run while no event was handled: the
\* service is still Idle and still holds its handle
C29_Witness ==
    /\ state = "Idle" /\ lastEvt = "none"
    /\ HandleStatus(active_timer) = "finished"
    /\ Kinds(timers[active_timer].log, "warn") # {}
    /\ Kinds(timers[active_timer].log, "off") # {}
    /\ Kinds(timers[active_timer].log, "final") # {}

\* C30: every warning of a countdown announces a duration of the configured
\* list notifications_at, a countdown that has ended has warned for every
\* configured duration below the timeout, and with notifications_enabled =
\* false a countdown makes no notification at all.
C30_UsesConfiguredValues ==
    \A i \in DOMAIN timers :
        LET log == timers[i].log
            at == conf.notifications_at
        IN /\ \A k \in Kinds(log, "warn") : \E j \in 1..Len(at) : log[k].rem = at[j]
           /\ timers[i].st = "finished" =>
                 \A j \in 1..Len(at) :
                     at[j] < timeout => \E k \in Kinds(log, "warn") : log[k].rem = at[j]
           /\ ~conf.notifications_enabled =>
                 (Kinds(log, "warn") = {} /\ Kinds(log, "final") = {})

\* C33: every countdown task that is still running is the one in active_timer
\* or is held by an abort task of on_adapter_off, and every abort task wakes
\* within 3 seconds of the handler that spawned it.
C33_NoOrphanedCountdown ==
    /\ \A i \in LiveTimers :
           \/ i = active_timer
           \/ \E k \in 1..Len(abort_tasks) : abort_tasks[k].timer = i
    /\ \A k \in 1..Len(abort_tasks) : abort_tasks[k].rem \in 0..GraceSecs

\* an abort task holds a running countdown while active_timer holds another
C33_Witness ==
    \E k \in 1..Len(abort_tasks) :
        /\ abort_tasks[k].timer \in LiveTimers
        /\ active_timer \in LiveTimers
        /\ active_timer # abort_tasks[k].timer

\* C34: after AdapterOn or a hint has been handled the state is Running when
\* the recount is above 0 and Idle otherwise, whatever the state was before,
\* so it is not Off; the state becomes Off only in on_adapter_off, which
\* always sets it.
C34_StateFollowsRecountOnly ==
    [][/\ \A r \in Events \ {"AdapterOff"} :
              Handled(r) => (state' = Resolve(lastCount') /\ state' # "Off")
       /\ (state' = "Off" /\ state # "Off") => Handled("AdapterOff")
       /\ Handled("AdapterOff") => state' = "Off"
      ]_vars

\* AdapterOn has just been handled in Running with a recount of 0: the state is Idle
C34_Witness ==
    lastEvt = "AdapterOn" /\ prevState = "Running" /\ lastCount = 0 /\ state = "Idle"

\* C35: a handled event never ends the loop of start and each turn handles
\* exactly the event received; the loop ends only when recv() returns an
\* error; start returns the missing-receiver error when self.rx is None and
\* touches nothing; while the loop runs self.rx is None, so start goes into
\* its loop again only after a new subscribe_to.
C35_StartEndsOnlyOnRecvError ==
    [][/\ \A r \in Events :
              Handled(r) => (pc' = "running" /\ lastEvt' = r /\ startErr' = startErr)
       /\ (pc = "running" /\ pc' # "running") =>
              (/\ pc' = "returned" /\ startErr' = "RecvError"
               /\ Handled("Lagged") \/ Handled("Closed"))
       /\ (Start /\ ~rx) =>
              (/\ pc' = "returned" /\ startErr' = "NoReceiver"
               /\ UNCHANGED <<state, active_timer, timers, abort_tasks>>)
       /\ pc' = "running" => ~rx'
       /\ (pc = "returned" /\ pc' = "running") => rx
      ]_vars

\* the loop of start ended on a recv() error, and start, called again without
\* a new subscribe_to, has returned the missing-receiver error
C35_Witness ==
    pc = "returned" /\ startErr = "NoReceiver" /\ lastEvt \in {"Lagged", "Closed"}

\* C36: a countdown makes its final notification at most once, directly after
\* its turn_off_adapter call whether that call returned Ok or Err, and a
\* countdown that has ended has made it as the last thing it did.
C36_FinalNotificationOnceAfterPowerOff ==
    \A i \in DOMAIN timers :
        LET log == timers[i].log
            t == timers[i]
        IN /\ Cardinality(Kinds(log, "final")) <= 1
           /\ \A k \in Kinds(log, "final") : k > 1 /\ log[k - 1].kind = "off"
           /\ (t.st = "running" /\ t.phase = "notify") =>
                 (Kinds(log, "final") = {} /\ log[Len(log)].kind = "off")
           /\ t.st = "finished" =>
                 (/\ Cardinality(Kinds(log, "off")) = 1
                  /\ log[Len(log)].kind = "final")

\* a countdown whose turn_off_adapter call failed has ended with its one
\* final notification
C36_Witness ==
    \E i \in DOMAIN timers :
        /\ timers[i].st = "finished"
        /\ \E k \in Kinds(timers[i].log, "off") : ~timers[i].log[k].ok
        /\ Cardinality(Kinds(timers[i].log, "final")) = 1

\* the events run has passed to sender.send, in order
SentKinds(log) == SelectSeq([i \in 1..Len(log) |-> log[i].kind], LAMBDA k : k # "none")

\* C31: a signal whose body does not parse, and a parsed signal of another
\* interface or without a boolean Powered / Connected property, makes no event
\* and leaves the loop of run running; every other signal adds exactly its
\* event after the ones sent before, also when no receiver is subscribed; the
\* loop ends only when the signal stream ends.
C31_BadSignalsAreSkipped ==
    [][/\ \A sig \in Signals, a \in QueryResults :
              Signal(sig, a) =>
                  /\ obs_pc' = "listening"
                  /\ SentKinds(obs_log') =
                         IF sig.parses /\ EventKind(sig) # "none"
                         THEN Append(SentKinds(obs_log), EventKind(sig))
                         ELSE SentKinds(obs_log)
                  /\ obs_log'[Len(obs_log')].delivered =
                         (sig.parses /\ EventKind(sig) # "none" /\ receivers > 0)
       /\ (obs_pc = "listening" /\ obs_pc' # "listening") => StreamEnds
      ]_vars

\* run has skipped a malformed signal and a signal that stands for no event,
\* and has then made an event of a later signal
C31_Witness ==
    /\ obs_pc = "listening"
    /\ \E i, j, k \in 1..Len(obs_log) :
           /\ i < k /\ j < k
           /\ obs_log[i].cls = "malformed"
           /\ obs_log[j].cls = "unrelated"
           /\ obs_log[k].cls = "event"

\* C32: once a call of load, from_file or instance has returned, CONF holds
\* the value that call returned, and every later call, whatever file it finds,
\* returns that same value.
C32_ConfInitialisedOnce ==
    /\ (CONF = <<>>) <=> (conf_calls = <<>>)
    /\ \A i \in 1..Len(conf_calls) :
           /\ conf_calls[i].ret = conf_calls[1].ret
           /\ CONF = <<conf_calls[1].ret>>

\* instance has set the defaults, and a later from_file that found a file
\* holding another Conf has returned the defaults
C32_Witness ==
    /\ Len(conf_calls) >= 2
    /\ conf_calls[1].fn = "instance"
    /\ \E j \in 2..Len(conf_calls) :
           /\ conf_calls[j].fn = "from_file"
           /\ conf_calls[j].file.readable /\ conf_calls[j].file.parses
           /\ conf_calls[j].file.value # conf_calls[j].ret

TypeOK ==
    /\ pc \in {"new", "noproxy", "failed", "created", "running", "returned"}
    /\ state \in {"Off", "Idle", "Running"}
    /\ active_timer \in {None} \cup DOMAIN timers
    /\ \A i \in DOMAIN timers : timers[i].st \in {"free", "running", "finished"}
    /\ faulty \in BOOLEAN
    /\ offFailed \in BOOLEAN
    /\ cancelIdx \in 0..(NumCheckpoints + 1)
====
